---- MODULE Spec2Model ----
(***************************************************************************)
(* JoJo wellness chat: the send-message handler (POST /api/jojo/message)   *)
(* of server/src/routes/jojo.js together with the completion adapter of    *)
(* server/src/services/aiService.js, over the Prisma store of the schema.  *)
(*                                                                         *)
(* Texts are TLA+ strings; Len, SubSeq and \o act on them as JavaScript's  *)
(* length, substring and +.  An optional value (null / undefined or a      *)
(* value) is a sequence of length 0 or 1.                                  *)
(***************************************************************************)
EXTENDS Integers, Sequences, FiniteSets, TLC

\* ------------------------------------------------------------------ bounds

\* Request slots: how many send-message requests one behaviour issues.
MaxRequests == 2
\* How far the wall clock advances (in ticks).
MaxTime == 1
\* Clock ticks in one calendar day.
TicksPerDay == 1
\* Fragments concatenated into one sample text of the classifier runs.
MaxFragments == 2
\* Messages a conversation holds when its history is formatted on its own.
MaxStored == 7

\* ------------------------------------------------------- program constants

\* content.length > 2000 is rejected
MaxContentLength == 2000
\* axios timeout of the completion call, in ms
ProviderTimeoutMs == 30000
\* findMany({ take: 10 })
HistoryTake == 10
\* conversationHistory.slice(0, 5) in the route
HistoryWindow == 5
\* history.slice(-5) in the service
ServiceHistoryWindow == 5
\* msg.content.length > 1000 is cut to substring(0, 1000) + '...'
HistoryContentMax == 1000

\* ------------------------------------------------------------ text helpers

Some(v) == <<v>>
None == <<>>

Range(s) == {s[i] : i \in DOMAIN s}

UpperCase == <<"A","B","C","D","E","F","G","H","I","J","K","L","M",
               "N","O","P","Q","R","S","T","U","V","W","X","Y","Z">>
LowerCase == <<"a","b","c","d","e","f","g","h","i","j","k","l","m",
               "n","o","p","q","r","s","t","u","v","w","x","y","z">>

LowerChar(c) ==
  IF \E i \in DOMAIN UpperCase : UpperCase[i] = c
  THEN LowerCase[CHOOSE i \in DOMAIN UpperCase : UpperCase[i] = c]
  ELSE c

\* String.prototype.toLowerCase
RECURSIVE toLowerCase(_)
toLowerCase(s) ==
  IF Len(s) = 0 THEN ""
  ELSE IF Len(s) = 1 THEN LowerChar(s)
  ELSE LET h == Len(s) \div 2
       IN toLowerCase(SubSeq(s, 1, h)) \o toLowerCase(SubSeq(s, h + 1, Len(s)))

\* String.prototype.includes
includes(s, k) ==
  \E i \in 1..(Len(s) - Len(k) + 1) : SubSeq(s, i, i + Len(k) - 1) = k

IsSpace(c) == c \in {" ", "\t", "\n", "\r"}

\* String.prototype.trim
RECURSIVE TrimStart(_, _)
TrimStart(s, i) ==
  IF i > Len(s) THEN i
  ELSE IF IsSpace(SubSeq(s, i, i)) THEN TrimStart(s, i + 1) ELSE i

RECURSIVE TrimEnd(_, _)
TrimEnd(s, j) ==
  IF j < 1 THEN j
  ELSE IF IsSpace(SubSeq(s, j, j)) THEN TrimEnd(s, j - 1) ELSE j

trim(s) == LET i == TrimStart(s, 1) IN IF i > Len(s) THEN "" ELSE SubSeq(s, i, TrimEnd(s, Len(s)))

\* n copies of s
RECURSIVE Repeat(_, _)
Repeat(s, n) ==
  IF n = 0 THEN ""
  ELSE IF n % 2 = 0 THEN LET h == Repeat(s, n \div 2) IN h \o h
  ELSE s \o Repeat(s, n - 1)

\* ------------------------------------------------------ crisis detection

HIGH_RISK == <<"kill myself", "suicide", "end my life", "overdose", "hanging myself",
               "jump off", "better off dead", "end it all", "kill me">>
MEDIUM_RISK == <<"want to die", "hurt myself", "self harm", "cut myself", "suicidal",
                 "self-harm", "harm myself", "hate myself", "worthless", "hopeless",
                 "cannot go on", "give up on life", "not worth living">>
LOW_RISK == <<"depressed", "sad all the time", "can't cope", "overwhelmed",
              "life is hard", "struggling", "feeling down">>

\* region?.toLowerCase() || ''
regionLower(region) == IF region = None THEN "" ELSE toLowerCase(region[1])

\* profile?.region
ProfileRegion(profile) == IF profile = None THEN None ELSE profile[1].region

NIGERIA_BLOCK == "**Nigeria Emergency Contacts:** 199, 911, +234 809 210 6493, 08000333333"
USA_BLOCK == "**USA Crisis Resources:** 988, Text HOME to 741741, 1-800-799-7233, 911"
UK_BLOCK == "**UK Crisis Resources:** 116 123, Text SHOUT to 85258, 0808 2000 247, 999"
INTERNATIONAL_BLOCK == "**International Crisis Resources:** iasp.info, befrienders.org, local emergency number"

\* the hotline block interpolated into the safety message
getLocalHotlines(region) ==
  LET r == regionLower(region)
  IN IF includes(r, "nigeria") \/ includes(r, "ng") THEN NIGERIA_BLOCK
     ELSE IF includes(r, "usa") \/ includes(r, "united states") THEN USA_BLOCK
     ELSE IF includes(r, "uk") \/ includes(r, "united kingdom") THEN UK_BLOCK
     ELSE INTERNATIONAL_BLOCK

HIGH_HEAD == "**URGENT: I'm deeply concerned about you** ... **IMMEDIATE HELP:** "
HIGH_TAIL == " **IMMEDIATE SAFETY STEPS:** ... I'm an AI and cannot provide the emergency support you need ... **This is not a substitute for professional mental health care.**"
MEDIUM_HEAD == "**I'm concerned about you and want to help** ... **Support Resources:** "
MEDIUM_TAIL == " **Immediate steps that might help:** ... **Please consider reaching out to a mental health professional for ongoing support.**"
LOW_HEAD == "**I hear that you're having a tough time** ... **If you need someone to talk to:** "
LOW_TAIL == " **Gentle reminders:** ... Is there something specific I can help you with today?"

generateCrisisResponse(region, riskLevel) ==
  IF riskLevel = "HIGH" THEN HIGH_HEAD \o getLocalHotlines(region) \o HIGH_TAIL
  ELSE IF riskLevel = "MEDIUM" THEN MEDIUM_HEAD \o getLocalHotlines(region) \o MEDIUM_TAIL
  ELSE LOW_HEAD \o getLocalHotlines(region) \o LOW_TAIL

NIGERIA_RESOURCES == <<"Crisis hotlines", "Emergency services (199, 911)",
                       "Mental health professionals", "Hospital emergency rooms",
                       "Lagos State DSVRT", "Community health centers">>
DEFAULT_RESOURCES == <<"Crisis hotlines", "Emergency services",
                       "Mental health professionals", "Hospital emergency rooms",
                       "Community support services", "Online crisis chat services">>

getCrisisResources(region) ==
  IF includes(regionLower(region), "nigeria") THEN NIGERIA_RESOURCES
  ELSE DEFAULT_RESOURCES

NIGERIA_HOTLINES == <<"+234 809 210 6493", "199", "911", "08000333333">>
USA_HOTLINES == <<"988", "741741", "911", "1-800-799-7233">>
UK_HOTLINES == <<"116 123", "85258", "999", "0808 2000 247">>
CANADA_HOTLINES == <<"1-833-456-4566", "45645", "911">>
INTERNATIONAL_HOTLINES == <<"Local emergency services">>

getCrisisHotlines(region) ==
  LET r == regionLower(region)
  IN IF includes(r, "nigeria") THEN NIGERIA_HOTLINES
     ELSE IF includes(r, "usa") THEN USA_HOTLINES
     ELSE IF includes(r, "uk") THEN UK_HOTLINES
     ELSE IF includes(r, "canada") THEN CANADA_HOTLINES
     ELSE INTERNATIONAL_HOTLINES

\* CRISIS_KEYWORDS.<tier>.filter(keyword => lowerMessage.includes(keyword))
KeywordsFoundFirst(list, lowerMessage) ==
  LET Hit(keyword) == includes(lowerMessage, keyword)
      found == SelectSeq(list, Hit)
  IN IF found = <<>> THEN <<>> ELSE <<found[1]>>
KeywordsFound(list, lowerMessage) ==
  LET Hit(keyword) == includes(lowerMessage, keyword)
  IN SelectSeq(list, Hit)

detectCrisisMediumFirst(message, profile) ==
  LET lowerMessage == toLowerCase(message)
      highRiskFound == KeywordsFound(HIGH_RISK, lowerMessage)
      mediumRiskFound == KeywordsFound(MEDIUM_RISK, lowerMessage)
      riskLevel == IF Len(mediumRiskFound) > 0 THEN "MEDIUM"
                   ELSE IF Len(highRiskFound) > 0 THEN "HIGH" ELSE "NONE"
  IN IF riskLevel = "NONE" THEN [isCrisis |-> FALSE]
     ELSE [isCrisis |-> TRUE, riskLevel |-> riskLevel,
           keywords |-> IF riskLevel = "HIGH" THEN highRiskFound ELSE mediumRiskFound,
           response |-> generateCrisisResponse(ProfileRegion(profile), riskLevel),
           resources |-> getCrisisResources(ProfileRegion(profile)),
           hotlines |-> getCrisisHotlines(ProfileRegion(profile))]

detectCrisisLowDefault(message, profile) ==
  LET lowerMessage == toLowerCase(message)
      highRiskFound == KeywordsFound(HIGH_RISK, lowerMessage)
      mediumRiskFound == KeywordsFound(MEDIUM_RISK, lowerMessage)
      lowRiskFound == KeywordsFound(LOW_RISK, lowerMessage)
      riskLevel == IF Len(highRiskFound) > 0 THEN "HIGH"
                   ELSE IF Len(mediumRiskFound) > 0 THEN "MEDIUM"
                   ELSE "LOW"
  IN [isCrisis |-> TRUE, riskLevel |-> riskLevel,
      keywords |-> IF Len(highRiskFound) > 0 THEN highRiskFound
                   ELSE IF Len(mediumRiskFound) > 0 THEN mediumRiskFound
                   ELSE lowRiskFound,
      response |-> generateCrisisResponse(ProfileRegion(profile), riskLevel),
      resources |-> getCrisisResources(ProfileRegion(profile)),
      hotlines |-> getCrisisHotlines(ProfileRegion(profile))]

detectCrisisWhenMonitored(message, profile) ==
  LET lowerMessage == toLowerCase(message)
      highRiskFound == KeywordsFound(HIGH_RISK, lowerMessage)
      mediumRiskFound == KeywordsFound(MEDIUM_RISK, lowerMessage)
      lowRiskFound == KeywordsFound(LOW_RISK, lowerMessage)
      monitored == IF profile = None THEN TRUE ELSE profile[1].crisisMonitoring
      riskLevel == IF ~monitored THEN "NONE"
                   ELSE IF Len(highRiskFound) > 0 THEN "HIGH"
                   ELSE IF Len(mediumRiskFound) > 0 THEN "MEDIUM"
                   ELSE IF Len(lowRiskFound) > 0 THEN "LOW"
                   ELSE "NONE"
      detectedKeywords == IF Len(highRiskFound) > 0 THEN highRiskFound
                          ELSE IF Len(mediumRiskFound) > 0 THEN mediumRiskFound
                          ELSE lowRiskFound
  IN IF riskLevel = "NONE" THEN [isCrisis |-> FALSE]
     ELSE [isCrisis |-> TRUE, riskLevel |-> riskLevel,
           keywords |-> detectedKeywords,
           response |-> generateCrisisResponse(ProfileRegion(profile), riskLevel),
           resources |-> getCrisisResources(ProfileRegion(profile)),
           hotlines |-> getCrisisHotlines(ProfileRegion(profile))]

detectCrisisEchoing(message, profile) ==
  LET lowerMessage == toLowerCase(message)
      highRiskFound == KeywordsFound(HIGH_RISK, lowerMessage)
      mediumRiskFound == KeywordsFound(MEDIUM_RISK, lowerMessage)
      lowRiskFound == KeywordsFound(LOW_RISK, lowerMessage)
      riskLevel == IF Len(highRiskFound) > 0 THEN "HIGH"
                   ELSE IF Len(mediumRiskFound) > 0 THEN "MEDIUM"
                   ELSE IF Len(lowRiskFound) > 0 THEN "LOW"
                   ELSE "NONE"
      detectedKeywords == IF Len(highRiskFound) > 0 THEN highRiskFound
                          ELSE IF Len(mediumRiskFound) > 0 THEN mediumRiskFound
                          ELSE lowRiskFound
  IN IF riskLevel = "NONE" THEN [isCrisis |-> FALSE]
     ELSE [isCrisis |-> TRUE, riskLevel |-> riskLevel,
           keywords |-> detectedKeywords,
           response |-> generateCrisisResponse(ProfileRegion(profile), riskLevel)
                        \o " You wrote: " \o message,
           resources |-> getCrisisResources(ProfileRegion(profile)),
           hotlines |-> getCrisisHotlines(ProfileRegion(profile))]

detectCrisis(message, profile) ==
  LET lowerMessage == toLowerCase(message)
      highRiskFound == KeywordsFound(HIGH_RISK, lowerMessage)
      mediumRiskFound == KeywordsFound(MEDIUM_RISK, lowerMessage)
      lowRiskFound == KeywordsFound(LOW_RISK, lowerMessage)
      riskLevel == IF Len(highRiskFound) > 0 THEN "HIGH"
                   ELSE IF Len(mediumRiskFound) > 0 THEN "MEDIUM"
                   ELSE IF Len(lowRiskFound) > 0 THEN "LOW"
                   ELSE "NONE"
      detectedKeywords == IF Len(highRiskFound) > 0 THEN highRiskFound
                          ELSE IF Len(mediumRiskFound) > 0 THEN mediumRiskFound
                          ELSE lowRiskFound
  IN IF riskLevel = "NONE" THEN [isCrisis |-> FALSE]
     ELSE [isCrisis |-> TRUE, riskLevel |-> riskLevel,
           keywords |-> detectedKeywords,
           response |-> generateCrisisResponse(ProfileRegion(profile), riskLevel),
           resources |-> getCrisisResources(ProfileRegion(profile)),
           hotlines |-> getCrisisHotlines(ProfileRegion(profile))]

\* --------------------------------------------------- completion adapter

analyzeResponseTypeFirstMatch(response, userInput) ==
  LET input == toLowerCase(userInput)
      content == toLowerCase(response)
      AnyOf(text, words) == \E w \in words : includes(text, w)
  IN IF AnyOf(content, {"workout", "exercise", "training", "fitness"}) THEN "EXERCISE"
     ELSE IF AnyOf(content, {"nutrition", "meal", "diet", "food", "recipe", "calories"})
     THEN "NUTRITION"
     ELSE IF AnyOf(content, {"stress", "anxiety", "mental", "meditation", "mindfulness"})
     THEN "MENTAL_HEALTH"
     ELSE IF AnyOf(content, {"sleep", "rest", "recovery"}) THEN "SLEEP"
     ELSE IF AnyOf(input, {"hello", "hi", "hey"}) THEN "GREETING"
     ELSE "SUGGESTION"

\* AIService.analyzeResponse: the type of the last rule that matched
analyzeResponseType(response, userInput) ==
  LET input == toLowerCase(userInput)
      content == toLowerCase(response)
      AnyOf(text, words) == \E w \in words : includes(text, w)
      t1 == IF AnyOf(content, {"workout", "exercise", "training", "fitness"})
            THEN "EXERCISE" ELSE "SUGGESTION"
      t2 == IF AnyOf(content, {"nutrition", "meal", "diet", "food", "recipe", "calories"})
            THEN "NUTRITION" ELSE t1
      t3 == IF AnyOf(content, {"stress", "anxiety", "mental", "meditation", "mindfulness"})
            THEN "MENTAL_HEALTH" ELSE t2
      t4 == IF AnyOf(content, {"sleep", "rest", "recovery"}) THEN "SLEEP" ELSE t3
  IN IF AnyOf(input, {"hello", "hi", "hey"}) THEN "GREETING" ELSE t4

\* AIService.analyzeResponse: topics.push(...) of every rule that matched
analyzeResponseTopics(response, userInput) ==
  LET input == toLowerCase(userInput)
      content == toLowerCase(response)
      AnyOf(text, words) == \E w \in words : includes(text, w)
      p1 == IF AnyOf(content, {"workout", "exercise", "training", "fitness"})
            THEN <<"fitness">> ELSE <<>>
      p2 == IF AnyOf(content, {"nutrition", "meal", "diet", "food", "recipe", "calories"})
            THEN Append(p1, "nutrition") ELSE p1
      p3 == IF AnyOf(content, {"stress", "anxiety", "mental", "meditation", "mindfulness"})
            THEN Append(p2, "mental_health") ELSE p2
      p4 == IF AnyOf(content, {"sleep", "rest", "recovery"}) THEN Append(p3, "sleep") ELSE p3
  IN IF AnyOf(input, {"hello", "hi", "hey"}) THEN Append(p4, "introduction") ELSE p4

\* confidence scores are kept in hundredths (0.85 -> 85)
analyzeResponse(response, userInput) ==
  [type |-> analyzeResponseType(response, userInput),
   topics |-> analyzeResponseTopics(response, userInput), confidence |-> 85]

SERVICE_FALLBACK_BODY == "I'm here to help with your wellness journey! I can provide personalized advice on: Fitness & Exercise, Nutrition, Mental Health, Sleep & Recovery ..."

\* profile?.firstName || '' : the WellnessProfile model has no firstName column
ProfileFirstName(profile) == ""

\* AIService.getFallbackResponse
getFallbackResponse(userInput, profile) ==
  LET userName == ProfileFirstName(profile)
      greeting == IF userName # "" THEN "Hi " \o userName \o "! " ELSE "Hi there! "
  IN [content |-> greeting \o SERVICE_FALLBACK_BODY, type |-> "SUGGESTION",
      confidence |-> 60, fallbackUsed |-> TRUE]

\* What the Groq endpoint can do with one call: answer 2xx with a text after
\* latency ms, or fail (network error, non-2xx status), or not answer in time.
AiOutputs == {"Try this beginner workout plan.",
              "Plan a workout, then eat a balanced meal."}
ProviderOutcomes ==
  {[kind |-> "ok", content |-> c, latency |-> 850] : c \in AiOutputs}
  \cup {[kind |-> "network", content |-> "", latency |-> 0],
        [kind |-> "status", content |-> "", latency |-> 120],
        [kind |-> "timeout", content |-> "", latency |-> ProviderTimeoutMs]}

ProviderFailed(outcome) == outcome.kind # "ok"

\* AIService.generateJoJoResponse: try { axios.post ... } catch { fallback }
generateJoJoResponse(userInput, profile, outcome) ==
  IF ProviderFailed(outcome)
  THEN getFallbackResponse(userInput, profile)
  ELSE LET analysis == analyzeResponse(outcome.content, userInput)
       IN [content |-> outcome.content, type |-> analysis.type,
           confidence |-> analysis.confidence, fallbackUsed |-> FALSE]

\* typeMapping[aiType] || 'TEXT'
mapMessageTypeAllText(aiType) == "TEXT"
mapMessageTypeIdentity(aiType) == aiType
mapMessageType(aiType) ==
  CASE aiType = "GREETING" -> "TEXT"
    [] aiType = "SUGGESTION" -> "TEXT"
    [] aiType = "EXERCISE" -> "TEXT"
    [] aiType = "NUTRITION" -> "RECIPE"
    [] aiType = "MENTAL_HEALTH" -> "TEXT"
    [] aiType = "SLEEP" -> "TEXT"
    [] aiType = "CRISIS_RESPONSE" -> "TEXT"
    [] OTHER -> "TEXT"

\* Math.ceil(responseTime / 1000 / 60)
ConversationMinutes(responseTime) == (responseTime + 59999) \div 60000

\* ------------------------------------------------------------------ state

VARIABLES
  chatConversation,  \* rows of chat_conversations, in creation order
  chatMessage,       \* rows of chat_messages, in creation order
  crisisLog,         \* rows of crisis_logs, in creation order
  chatAnalytics,     \* rows of chat_analytics: one per (userId, date)
  wellnessProfile,   \* userId -> optional wellness_profiles row
  now,               \* the wall clock, in ticks
  req,               \* per request slot: the handler's position and locals
  call               \* the classifier run under SpecClassify

store == <<chatConversation, chatMessage, crisisLog, chatAnalytics, wellnessProfile>>
vars == <<chatConversation, chatMessage, crisisLog, chatAnalytics, wellnessProfile,
          now, req, call>>

Users == {"u1", "u2"}
Slots == 1..MaxRequests

\* today.setHours(0, 0, 0, 0)
Midnight(t) == t \div TicksPerDay

\* The clock as the next store call or new Date() finds it: time passes between
\* the steps of a handler, or does not.
Later == {t \in {now, now + 1} : t <= MaxTime}

Request(userId, conversationId, content) ==
  [userId |-> userId, conversationId |-> conversationId, content |-> content]

\* Requests sent after the first one, also while others of them are in flight.
ConcurrentSampleRequests ==
  {Request("u1", None, Some(" Hi coach ")),
   Request("u1", Some(1), Some("feeling down today")),
   Request("u1", Some(1), Some("   "))}

\* Requests sent first.
SampleRequests ==
  ConcurrentSampleRequests \cup
  {Request("u1", None, None),
   Request("u2", Some(1), Some("")),
   Request("u2", None, Some(Repeat("x", MaxContentLength + 1))),
   Request("u1", None, Some(" " \o Repeat("x", MaxContentLength - 2) \o " ")),
   Request("u2", None, Some("What's a good beginner workout?")),
   Request("u1", None, Some("End It All. worthless, struggling")),
   Request("u1", None, Some("Struggling, can't cope")),
   Request("u2", None, Some("so Hopeless and overwhelmed")),
   Request("u2", Some(1), Some("feeling down today")),
   Request("u2", Some(2), Some(" Hi coach ")),
   Request("u2", None, Some("I want to kill myself"))}

SampleMessages == {q.content[1] : q \in {x \in SampleRequests : x.content # None}}

\* wellness_profiles as the store starts (the chat core only reads it).
InitialProfiles ==
  [u \in Users |-> IF u = "u1"
                   THEN Some([region |-> Some("Lagos, NIGERIA"), crisisMonitoring |-> FALSE])
                   ELSE None]
SampleProfiles == {InitialProfiles[u] : u \in Users}

IdleRequest ==
  [pc |-> "idle", userId |-> "", body |-> [conversationId |-> None, content |-> None],
   conversation |-> 0, userMessage |-> 0, wellnessProfile |-> None,
   conversationHistory |-> <<>>, crisisDetection |-> [isCrisis |-> FALSE],
   outcome |-> None, aiResponse |-> None, stamp |-> 0, today |-> 0,
   responseTime |-> 0,
   jojoMessage |-> 0, providerCalls |-> 0, sent |-> None, storeFailed |-> FALSE,
   response |-> None]

NoCall == [fn |-> "none"]

Init ==
  /\ chatConversation = <<>>
  /\ chatMessage = <<>>
  /\ crisisLog = <<>>
  /\ chatAnalytics = {}
  /\ wellnessProfile = InitialProfiles
  /\ now = 0
  /\ req = [r \in Slots |-> IdleRequest]
  /\ call = NoCall

\* --------------------------------------------------------------- tables
\* The pure functions over the sample inputs, evaluated once.

detectCrisisOf ==
  [message \in SampleMessages, profile \in SampleProfiles |-> detectCrisis(message, profile)]
generateJoJoResponseOf ==
  [userInput \in SampleMessages, profile \in SampleProfiles, outcome \in ProviderOutcomes |->
     generateJoJoResponse(userInput, profile, outcome)]

\* ---------------------------------------------------------------- handler

BadRequest(message) == [status |-> 400, success |-> FALSE, message |-> message]
NotFound == [status |-> 404, success |-> FALSE, message |-> "Conversation not found"]
ServerError == [status |-> 500, success |-> FALSE, message |-> "Failed to send message"]

\* res.json(...): the handler ends and its locals go; the slot keeps what the
\* request was, what it reached and the answer.
Respond(rec, response) ==
  [rec EXCEPT !.pc = "done", !.response = Some(response),
              !.wellnessProfile = None, !.conversationHistory = <<>>,
              !.aiResponse = None, !.stamp = 0, !.today = 0, !.responseTime = 0,
              !.sent = None]

InFlight(r) == req[r].pc \notin {"idle", "done"}

\* !content || content.trim().length === 0
ContentRequiredNoTrim(content) ==
  content = None \/ content[1] = ""
ContentRequired(content) ==
  content = None \/ content[1] = "" \/ Len(trim(content[1])) = 0

\* content.length > 2000
ContentTooLongOffByOne(content) == Len(content[1]) >= MaxContentLength
ContentTooLong(content) == Len(content[1]) > MaxContentLength

\* The handler from its entry to its first store call.
Entry(rec, q, at) ==
  LET got == [rec EXCEPT !.userId = q.userId,
                         !.body = [conversationId |-> q.conversationId,
                                   content |-> q.content]]
  IN IF ContentRequired(q.content)
     THEN Respond(got, BadRequest("Message content is required"))
     ELSE IF ContentTooLong(q.content)
     THEN Respond(got, BadRequest("Message too long (max 2000 characters)"))
     ELSE IF q.conversationId # None
     THEN [got EXCEPT !.pc = "findConversation"]
     ELSE [got EXCEPT !.pc = "createConversation", !.stamp = at]

AsRequest(rec) == Request(rec.userId, rec.body.conversationId, rec.body.content)

Receive(r) ==
  /\ req[r].pc = "idle"
  /\ IF r = 1 THEN TRUE ELSE req[r - 1].pc # "idle"
  /\ \A o \in Slots : InFlight(o) => AsRequest(req[o]) \in ConcurrentSampleRequests
  /\ \E q \in (IF r = 1 THEN SampleRequests ELSE ConcurrentSampleRequests), at \in Later :
       /\ req' = [req EXCEPT ![r] = Entry(req[r], q, at)]
       /\ now' = at
  /\ UNCHANGED <<store, call>>

\* A store call rejects: the outer catch answers 500.
StoreFails(r) ==
  /\ req[r].pc \in {"findConversation", "createConversation", "saveUserMessage",
                    "findProfile", "findHistory", "createCrisisLog",
                    "saveCrisisResponse", "updateConversationCrisis",
                    "saveJojoResponse", "updateConversation", "upsertAnalytics"}
  /\ req' = [req EXCEPT ![r] = Respond([req[r] EXCEPT !.storeFailed = TRUE], ServerError)]
  /\ UNCHANGED <<store, now, call>>

\* chatConversation.findUnique({ where: { id, userId } })
findConversationAnyOwner(id, userId) ==
  {c \in Range(chatConversation) : c.id = id}
findConversation(id, userId) ==
  {c \in Range(chatConversation) : c.id = id /\ c.userId = userId}

FindConversation(r) ==
  /\ req[r].pc = "findConversation"
  /\ LET found == findConversation(req[r].body.conversationId[1], req[r].userId)
     IN req' = [req EXCEPT ![r] =
          IF found = {} THEN Respond(req[r], NotFound)
          ELSE [req[r] EXCEPT !.conversation = (CHOOSE c \in found : TRUE).id,
                              !.pc = "saveUserMessage"]]
  /\ UNCHANGED <<store, now, call>>

CreateConversationReusing(r) ==
  /\ req[r].pc = "createConversation"
  /\ LET mine == {c \in Range(chatConversation) : c.userId = req[r].userId}
         id == IF mine = {} THEN Len(chatConversation) + 1
               ELSE (CHOOSE c \in mine : \A o \in mine : o.id <= c.id).id
     IN /\ chatConversation' =
             IF mine = {}
             THEN Append(chatConversation,
                    [id |-> id, userId |-> req[r].userId, lastMessageAt |-> req[r].stamp])
             ELSE chatConversation
        /\ req' = [req EXCEPT ![r].conversation = id, ![r].pc = "saveUserMessage"]
  /\ UNCHANGED <<chatMessage, crisisLog, chatAnalytics, wellnessProfile, now, call>>
CreateConversation(r) ==
  /\ req[r].pc = "createConversation"
  /\ LET id == Len(chatConversation) + 1
     IN /\ chatConversation' = Append(chatConversation,
              [id |-> id, userId |-> req[r].userId, lastMessageAt |-> req[r].stamp])
        /\ req' = [req EXCEPT ![r].conversation = id, ![r].pc = "saveUserMessage"]
  /\ UNCHANGED <<chatMessage, crisisLog, chatAnalytics, wellnessProfile, now, call>>

SaveUserMessageDeferred(r) ==
  /\ req[r].pc = "saveUserMessage"
  /\ req' = [req EXCEPT ![r].pc = "findProfile"]
  /\ UNCHANGED <<store, now, call>>
SaveUserMessage(r) ==
  /\ req[r].pc = "saveUserMessage"
  /\ \E at \in Later :
       LET id == Len(chatMessage) + 1
       IN /\ chatMessage' = Append(chatMessage,
                [id |-> id, conversationId |-> req[r].conversation,
                 userId |-> req[r].userId, content |-> trim(req[r].body.content[1]),
                 sender |-> "USER", messageType |-> "TEXT", createdAt |-> at])
          /\ req' = [req EXCEPT ![r].userMessage = id, ![r].pc = "findProfile"]
          /\ now' = at
  /\ UNCHANGED <<chatConversation, crisisLog, chatAnalytics, wellnessProfile, call>>

FindProfile(r) ==
  /\ req[r].pc = "findProfile"
  /\ req' = [req EXCEPT ![r].wellnessProfile = wellnessProfile[req[r].userId],
                        ![r].pc = "findHistory"]
  /\ UNCHANGED <<store, now, call>>

\* orderBy: { createdAt: 'desc' }; rows of equal createdAt come in either id order
ComesBefore(m, o, tieAsc) ==
  \/ m.createdAt > o.createdAt
  \/ m.createdAt = o.createdAt /\ (IF tieAsc THEN m.id < o.id ELSE m.id > o.id)

RECURSIVE SortDesc(_, _)
SortDesc(rows, tieAsc) ==
  IF rows = {} THEN <<>>
  ELSE LET m == CHOOSE m \in rows : \A o \in rows \ {m} : ComesBefore(m, o, tieAsc)
       IN <<m>> \o SortDesc(rows \ {m}, tieAsc)

Take(s, n) == SubSeq(s, 1, IF Len(s) < n THEN Len(s) ELSE n)

\* findMany's orderBy, take: 10 and select over the rows its where keeps
historyOf(rows, tieAsc) ==
  LET sorted == Take(SortDesc(rows, tieAsc), HistoryTake)
  IN [i \in DOMAIN sorted |->
        [content |-> sorted[i].content, sender |-> sorted[i].sender,
         messageType |-> sorted[i].messageType, createdAt |-> sorted[i].createdAt]]

\* chatMessage.findMany({ where: { conversationId }, orderBy, take: 10, select })
findHistory(conversationId, tieAsc) ==
  historyOf({m \in Range(chatMessage) : m.conversationId = conversationId}, tieAsc)

\* Array.prototype.slice(-n)
LastN(s, n) == IF Len(s) <= n THEN s ELSE SubSeq(s, Len(s) - n + 1, Len(s))

\* AIService.formatConversationHistory
formatConversationHistoryNoCut(history) ==
  LET h == LastN(history, ServiceHistoryWindow)
  IN [i \in DOMAIN h |->
        [role |-> IF h[i].sender = "USER" THEN "user" ELSE "assistant",
         content |-> h[i].content]]
formatConversationHistory(history) ==
  LET h == LastN(history, ServiceHistoryWindow)
  IN [i \in DOMAIN h |->
        [role |-> IF h[i].sender = "USER" THEN "user" ELSE "assistant",
         content |-> IF Len(h[i].content) > HistoryContentMax
                     THEN SubSeq(h[i].content, 1, HistoryContentMax) \o "..."
                     ELSE h[i].content]]

\* The history the route hands to the service, as the service sends it on.
sentHistory(conversationHistory) ==
  formatConversationHistory(Take(conversationHistory, HistoryWindow))

\* if (crisisDetection.isCrisis) { ... return } ; otherwise the completion call
AlwaysComplete(crisisDetection) == "callProvider"
PathAfterDetection(crisisDetection) ==
  IF crisisDetection.isCrisis THEN "createCrisisLog" ELSE "callProvider"

\* The history read, then detectCrisis and, on the completion path, the issue
\* of the Groq call (aiService.generateJoJoResponse up to its await).
FindHistory(r) ==
  /\ req[r].pc = "findHistory"
  /\ \E tieAsc \in BOOLEAN :
       LET crisisDetection == detectCrisisOf[req[r].body.content[1], req[r].wellnessProfile]
           path == PathAfterDetection(crisisDetection)
           conversationHistory == findHistory(req[r].conversation, tieAsc)
       IN req' = [req EXCEPT
            ![r].conversationHistory = conversationHistory,
            ![r].crisisDetection = crisisDetection,
            ![r].providerCalls = IF path = "callProvider" THEN @ + 1 ELSE @,
            ![r].sent = IF path = "callProvider"
                        THEN Some([history |-> sentHistory(conversationHistory),
                                   userInput |-> req[r].body.content[1]])
                        ELSE @,
            ![r].pc = path]
  /\ UNCHANGED <<store, now, call>>

\* followUpNeeded / adminNotified: crisisDetection.riskLevel === 'HIGH'
followUpNeededFromMedium(riskLevel) == riskLevel \in {"HIGH", "MEDIUM"}
followUpNeeded(riskLevel) == riskLevel = "HIGH"
adminNotified(riskLevel) == riskLevel = "HIGH"

CreateCrisisLogSkipped(r) ==
  /\ req[r].pc = "createCrisisLog"
  /\ req' = [req EXCEPT ![r].pc = "saveCrisisResponse"]
  /\ UNCHANGED <<store, now, call>>
CreateCrisisLog(r) ==
  /\ req[r].pc = "createCrisisLog"
  /\ LET d == req[r].crisisDetection
     IN crisisLog' = Append(crisisLog,
          [userId |-> req[r].userId, messageId |-> req[r].userMessage,
           triggerContent |-> req[r].body.content[1], keywords |-> d.keywords,
           riskLevel |-> d.riskLevel, responseGiven |-> d.response,
           resourcesShared |-> d.resources,
           userRegion |-> ProfileRegion(req[r].wellnessProfile),
           hotlinesProvided |-> d.hotlines,
           followUpNeeded |-> followUpNeeded(d.riskLevel),
           adminNotified |-> adminNotified(d.riskLevel)])
  /\ req' = [req EXCEPT ![r].pc = "saveCrisisResponse"]
  /\ UNCHANGED <<chatConversation, chatMessage, chatAnalytics, wellnessProfile, now, call>>

\* The JOJO row written on either path.
JojoRow(r, content, messageType, at) ==
  [id |-> Len(chatMessage) + 1, conversationId |-> req[r].conversation,
   userId |-> req[r].userId, content |-> content, sender |-> "JOJO",
   messageType |-> messageType, createdAt |-> at]

SaveCrisisResponseMapped(r) ==
  /\ req[r].pc = "saveCrisisResponse"
  /\ \E at \in Later :
       LET row == JojoRow(r, req[r].crisisDetection.response,
                          mapMessageType("CRISIS_RESPONSE"), at)
       IN /\ chatMessage' = Append(chatMessage, row)
          /\ req' = [req EXCEPT ![r].jojoMessage = row.id, ![r].stamp = at,
                                ![r].pc = "updateConversationCrisis"]
          /\ now' = at
  /\ UNCHANGED <<chatConversation, crisisLog, chatAnalytics, wellnessProfile, call>>
SaveCrisisResponse(r) ==
  /\ req[r].pc = "saveCrisisResponse"
  /\ \E at \in Later :
       LET row == JojoRow(r, req[r].crisisDetection.response, "CRISIS_RESPONSE", at)
       IN /\ chatMessage' = Append(chatMessage, row)
          /\ req' = [req EXCEPT ![r].jojoMessage = row.id, ![r].stamp = at,
                                ![r].pc = "updateConversationCrisis"]
          /\ now' = at
  /\ UNCHANGED <<chatConversation, crisisLog, chatAnalytics, wellnessProfile, call>>

\* chatConversation.update({ where: { id }, data: { lastMessageAt } })
TouchConversation(id, at) ==
  [i \in DOMAIN chatConversation |->
     IF chatConversation[i].id = id
     THEN [chatConversation[i] EXCEPT !.lastMessageAt = at]
     ELSE chatConversation[i]]

UpdateConversationCrisisCounted(r) ==
  /\ req[r].pc = "updateConversationCrisis"
  /\ chatConversation' = TouchConversation(req[r].conversation, req[r].stamp)
  /\ chatAnalytics' = chatAnalytics \cup
       {[userId |-> req[r].userId, date |-> Midnight(now), messagesCount |-> 1,
         conversationTime |-> 0]}
  /\ req' = [req EXCEPT ![r] = Respond(req[r],
       [status |-> 200, success |-> TRUE, conversation |-> req[r].conversation,
        userMessage |-> req[r].userMessage, jojoMessage |-> req[r].jojoMessage,
        crisisDetected |-> TRUE, riskLevel |-> req[r].crisisDetection.riskLevel,
        responseType |-> "crisis", keywords |-> req[r].crisisDetection.keywords])]
  /\ UNCHANGED <<chatMessage, crisisLog, wellnessProfile, now, call>>
UpdateConversationCrisis(r) ==
  /\ req[r].pc = "updateConversationCrisis"
  /\ chatConversation' = TouchConversation(req[r].conversation, req[r].stamp)
  /\ req' = [req EXCEPT ![r] = Respond(req[r],
       [status |-> 200, success |-> TRUE, conversation |-> req[r].conversation,
        userMessage |-> req[r].userMessage, jojoMessage |-> req[r].jojoMessage,
        crisisDetected |-> TRUE, riskLevel |-> req[r].crisisDetection.riskLevel,
        responseType |-> "crisis", keywords |-> req[r].crisisDetection.keywords])]
  /\ UNCHANGED <<chatMessage, crisisLog, chatAnalytics, wellnessProfile, now, call>>

\* The handler once the Groq call has settled: aiService catches a failed call
\* and returns its fallback, so the route goes on to save the reply either way;
\* responseTime = Date.now() - startTime.
CompletedNoCatch(rec, outcome) ==
  IF ProviderFailed(outcome) THEN Respond(rec, ServerError)
  ELSE [rec EXCEPT
         !.outcome = Some(outcome),
         !.aiResponse = Some(generateJoJoResponseOf[rec.body.content[1],
                                                    rec.wellnessProfile, outcome]),
         !.responseTime = outcome.latency,
         !.pc = "saveJojoResponse"]
Completed(rec, outcome) ==
  [rec EXCEPT
     !.outcome = Some(outcome),
     !.aiResponse = Some(generateJoJoResponseOf[rec.body.content[1],
                                                rec.wellnessProfile, outcome]),
     !.responseTime = outcome.latency,
     !.pc = "saveJojoResponse"]

ProviderRespondsNoTimeout(r) ==
  /\ req[r].pc = "callProvider"
  /\ \E outcome \in ProviderOutcomes :
       req' = [req EXCEPT ![r] = IF outcome.kind = "timeout"
                                 THEN [req[r] EXCEPT !.pc = "awaitProvider"]
                                 ELSE Completed(req[r], outcome)]
  /\ UNCHANGED <<store, now, call>>
ProviderResponds(r) ==
  /\ req[r].pc = "callProvider"
  /\ \E outcome \in ProviderOutcomes :
       req' = [req EXCEPT ![r] = Completed(req[r], outcome)]
  /\ UNCHANGED <<store, now, call>>

SaveJojoResponse(r) ==
  /\ req[r].pc = "saveJojoResponse"
  /\ \E at \in Later :
       LET ai == req[r].aiResponse[1]
           row == JojoRow(r, ai.content, mapMessageType(ai.type), at)
       IN /\ chatMessage' = Append(chatMessage, row)
          /\ req' = [req EXCEPT ![r].jojoMessage = row.id, ![r].stamp = at,
                                ![r].pc = "updateConversation"]
          /\ now' = at
  /\ UNCHANGED <<chatConversation, crisisLog, chatAnalytics, wellnessProfile, call>>

UpdateConversation(r) ==
  /\ req[r].pc = "updateConversation"
  /\ \E at \in Later :
       /\ chatConversation' = TouchConversation(req[r].conversation, req[r].stamp)
       /\ req' = [req EXCEPT ![r].today = Midnight(at), ![r].pc = "upsertAnalytics"]
       /\ now' = at
  /\ UNCHANGED <<chatMessage, crisisLog, chatAnalytics, wellnessProfile, call>>

\* chatAnalytics.upsert({ where: { userId_date }, update: { increment }, create })
upsertAnalyticsCreateDefault(userId, date, responseTime) ==
  LET old == {a \in chatAnalytics : a.userId = userId /\ a.date = date}
  IN IF old = {}
     THEN chatAnalytics \cup {[userId |-> userId, date |-> date, messagesCount |-> 0,
                               conversationTime |-> ConversationMinutes(responseTime)]}
     ELSE (chatAnalytics \ old) \cup
          {[a EXCEPT !.messagesCount = @ + 1,
                     !.conversationTime = @ + ConversationMinutes(responseTime)] : a \in old}
upsertAnalyticsSkipped(userId, date, responseTime) == chatAnalytics
upsertAnalyticsSet(userId, date, responseTime) ==
  LET old == {a \in chatAnalytics : a.userId = userId /\ a.date = date}
  IN (chatAnalytics \ old) \cup
       {[userId |-> userId, date |-> date, messagesCount |-> 1,
         conversationTime |-> ConversationMinutes(responseTime)]}
\* one upsert statement on the unique (userId, date) key, applied as a whole
upsertAnalytics(userId, date, responseTime) ==
  LET old == {a \in chatAnalytics : a.userId = userId /\ a.date = date}
  IN IF old = {}
     THEN chatAnalytics \cup {[userId |-> userId, date |-> date, messagesCount |-> 1,
                               conversationTime |-> ConversationMinutes(responseTime)]}
     ELSE (chatAnalytics \ old) \cup
          {[a EXCEPT !.messagesCount = @ + 1,
                     !.conversationTime = @ + ConversationMinutes(responseTime)] : a \in old}

UpsertAnalytics(r) ==
  /\ req[r].pc = "upsertAnalytics"
  /\ chatAnalytics' = upsertAnalytics(req[r].userId, req[r].today, req[r].responseTime)
  /\ req' = [req EXCEPT ![r] = Respond(req[r],
       [status |-> 200, success |-> TRUE, conversation |-> req[r].conversation,
        userMessage |-> req[r].userMessage, jojoMessage |-> req[r].jojoMessage,
        responseTime |-> req[r].responseTime,
        confidence |-> req[r].aiResponse[1].confidence,
        messageType |-> req[r].aiResponse[1].type, aiProvider |-> "groq"])]
  /\ UNCHANGED <<chatConversation, chatMessage, crisisLog, wellnessProfile, now, call>>

Step(r) ==
  \/ Receive(r)
  \/ StoreFails(r)
  \/ FindConversation(r)
  \/ CreateConversation(r)
  \/ SaveUserMessage(r)
  \/ FindProfile(r)
  \/ FindHistory(r)
  \/ CreateCrisisLog(r)
  \/ SaveCrisisResponse(r)
  \/ UpdateConversationCrisis(r)
  \/ ProviderResponds(r)
  \/ SaveJojoResponse(r)
  \/ UpdateConversation(r)
  \/ UpsertAnalytics(r)

Next == \E r \in Slots : Step(r)

Spec == Init /\ [][Next]_vars

\* A handler that has been received runs on: the event loop resumes it when
\* the store call or the completion call it awaits settles, store calls
\* terminate, and axios settles the completion call within its timeout.
Progress ==
  \E r \in Slots :
    \/ StoreFails(r) \/ FindConversation(r) \/ CreateConversation(r)
    \/ SaveUserMessage(r) \/ FindProfile(r) \/ FindHistory(r)
    \/ CreateCrisisLog(r) \/ SaveCrisisResponse(r) \/ UpdateConversationCrisis(r)
    \/ ProviderResponds(r) \/ SaveJojoResponse(r) \/ UpdateConversation(r)
    \/ UpsertAnalytics(r)

SpecLive == Init /\ [][Next]_vars /\ WF_vars(Progress)

\* ------------------------------------------------- the pure functions alone

Fragments == <<"I ", "Kill Myself", "Want To Die", "overwhelmed", " hello ",
               "suicidal", "workout">>

RECURSIVE TextsOf(_)
TextsOf(n) ==
  IF n = 0 THEN {""}
  ELSE LET shorter == TextsOf(n - 1)
       IN shorter \cup {t \o Fragments[i] : t \in shorter, i \in DOMAIN Fragments}

ClassifierTexts == TextsOf(MaxFragments)

SampleRegions ==
  {None, Some(""), Some("Nigeria"), Some("NIGERIA"), Some("Lagos, nigeria"),
   Some("Singapore"), Some("England"), Some("USA"), Some("United States"),
   Some("UK"), Some("United Kingdom"), Some("Ukraine"), Some("Canada"),
   Some("Ghana"), Some("Germany")}

ClassifierProfiles ==
  {None} \cup {Some([region |-> g, crisisMonitoring |-> m]) :
                 g \in {None, Some("Nigeria"), Some("Canada")}, m \in BOOLEAN}

CallDetectCrisis ==
  /\ call = NoCall
  /\ \E message \in ClassifierTexts, profile \in ClassifierProfiles :
       call' = [fn |-> "detectCrisis", message |-> message, profile |-> profile,
                result |-> detectCrisis(message, profile)]
  /\ UNCHANGED <<store, now, req>>

CallRender ==
  /\ call = NoCall
  /\ \E region \in SampleRegions, riskLevel \in {"HIGH", "MEDIUM", "LOW"} :
       call' = [fn |-> "render", region |-> region, riskLevel |-> riskLevel,
                message |-> generateCrisisResponse(region, riskLevel),
                resources |-> getCrisisResources(region),
                hotlines |-> getCrisisHotlines(region)]
  /\ UNCHANGED <<store, now, req>>

\* A conversation of n stored messages, senders alternating, two messages to
\* a timestamp, one of them (long) over the content limit and one (edge) at it.
StoredRows(n, long, edge) ==
  {[id |-> i, conversationId |-> 1, userId |-> "u1",
    content |-> IF i = long THEN Repeat("y", HistoryContentMax + 500)
                ELSE IF i = edge THEN Repeat("z", HistoryContentMax)
                ELSE "message",
    sender |-> IF i % 2 = 1 THEN "USER" ELSE "JOJO",
    messageType |-> "TEXT", createdAt |-> (i + 1) \div 2] : i \in 1..n}

CallSendHistory ==
  /\ call = NoCall
  /\ \E n \in 0..MaxStored, tieAsc \in BOOLEAN :
       \E long \in 0..n, edge \in 0..n :
         LET rows == StoredRows(n, long, edge)
             conversationHistory == historyOf(rows, tieAsc)
         IN call' = [fn |-> "sendHistory",
                     stored |-> {[createdAt |-> m.createdAt, id |-> m.id] : m \in rows},
                     taken |-> Take(conversationHistory, HistoryWindow),
                     sent |-> sentHistory(conversationHistory)]
  /\ UNCHANGED <<store, now, req>>

\* Completions and user inputs handed to analyzeResponse.
SampleCompletions ==
  {"Keep going!", "Try a Workout.", "A balanced MEAL helps.", "Mindfulness practice",
   "Get enough sleep", "Workout, then a meal", "Diet and stress",
   "Recovery after training", "Meditation, food, fitness, rest", "A forest walk"}
SampleInputs == {"Hello JoJo", "what should I do", "and this week?", "HEY", "plan"}

CallAnalyzeResponse ==
  /\ call = NoCall
  /\ \E response \in SampleCompletions, userInput \in SampleInputs :
       call' = [fn |-> "analyzeResponse", response |-> response, userInput |-> userInput,
                result |-> analyzeResponse(response, userInput)]
  /\ UNCHANGED <<store, now, req>>

Return ==
  /\ call # NoCall
  /\ call' = NoCall
  /\ UNCHANGED <<store, now, req>>

NextClassify ==
  CallDetectCrisis \/ CallRender \/ CallSendHistory \/ CallAnalyzeResponse \/ Return

SpecClassify == Init /\ [][NextClassify]_vars

\* ============================================================ properties

Done(r) == req[r].pc = "done"
Status(r) == req[r].response[1].status
Succeeded(r) == Done(r) /\ Status(r) = 200
ProviderFailedFor(r) == req[r].outcome # None /\ ProviderFailed(req[r].outcome[1])
RowsOf(table) == {table[i] : i \in DOMAIN table}
MessageById(id) == {m \in RowsOf(chatMessage) : m.id = id}
LogsFor(id) == {i \in DOMAIN crisisLog : crisisLog[i].messageId = id}

\* A text mentions a tier when its lower-cased form contains one of the tier's
\* keywords as a substring.
Mentions(text, list) == \E i \in DOMAIN list : includes(toLowerCase(text), list[i])
MentionsOf ==
  [text \in SampleMessages |->
     [high |-> Mentions(text, HIGH_RISK), medium |-> Mentions(text, MEDIUM_RISK),
      low |-> Mentions(text, LOW_RISK)]]
MentionsAny(text) ==
  MentionsOf[text].high \/ MentionsOf[text].medium \/ MentionsOf[text].low

CrisisPositions == {"createCrisisLog", "saveCrisisResponse", "updateConversationCrisis"}
CompletionPositions ==
  {"callProvider", "saveJojoResponse", "updateConversation", "upsertAnalytics"}

\* C1: a request whose text the classifier put in a risk tier never invokes the
\* completion provider: not while it is handled, not when it has answered, and
\* not when a store write after the classification failed.
C1_NoCompletionOnCrisis ==
  \A r \in Slots :
    req[r].crisisDetection.isCrisis =>
      /\ req[r].providerCalls = 0
      /\ req[r].outcome = None
      /\ req[r].pc \notin CompletionPositions

\* a crisis request whose crisis log was written and whose next store write failed
C1_Witness ==
  \E r \in Slots :
    /\ req[r].crisisDetection.isCrisis
    /\ Done(r) /\ req[r].storeFailed
    /\ LogsFor(req[r].userMessage) # {}

\* C2: the risk level detectCrisis returns, and the crisis log records, is the
\* highest tier the text mentions: HIGH whenever a high-risk keyword occurs,
\* MEDIUM when a medium-risk keyword occurs and no high-risk one does.
C2_HighestTierWins ==
  /\ \A r \in Slots :
       req[r].crisisDetection.isCrisis =>
         LET hit == MentionsOf[req[r].body.content[1]]
             level == req[r].crisisDetection.riskLevel
         IN /\ hit.high => level = "HIGH"
            /\ (~hit.high /\ hit.medium) => level = "MEDIUM"
  /\ \A i \in DOMAIN crisisLog :
       LET hit == MentionsOf[crisisLog[i].triggerContent]
           level == crisisLog[i].riskLevel
       IN /\ hit.high => level = "HIGH"
          /\ (~hit.high /\ hit.medium) => level = "MEDIUM"
          /\ (~hit.high /\ ~hit.medium) => level = "LOW"

\* a logged text that mentions all three tiers, recorded as HIGH
C2_Witness ==
  \E i \in DOMAIN crisisLog :
    LET hit == MentionsOf[crisisLog[i].triggerContent]
    IN hit.high /\ hit.medium /\ hit.low /\ crisisLog[i].riskLevel = "HIGH"

\* C3: once every request sent has been answered without a server error, each
\* persisted USER message belongs to exactly one successful request, that
\* request produced exactly one JOJO message of its own in the same
\* conversation, there are as many JOJO messages as USER messages, and the
\* USER message has one crisis log if its text mentions a risk tier and none
\* otherwise.
AllAnsweredWithoutError ==
  \A r \in Slots : req[r].pc = "idle" \/ (Done(r) /\ Status(r) # 500)
C3_OneReplyPerUserMessage ==
  AllAnsweredWithoutError =>
    LET users == {m \in RowsOf(chatMessage) : m.sender = "USER"}
        jojos == {m \in RowsOf(chatMessage) : m.sender = "JOJO"}
    IN /\ Cardinality(jojos) = Cardinality(users)
       /\ \A m \in users :
            LET owners == {r \in Slots : Succeeded(r) /\ req[r].userMessage = m.id}
            IN /\ Cardinality(owners) = 1
               /\ \A r \in owners :
                    /\ \E j \in jojos : /\ j.id = req[r].jojoMessage
                                        /\ j.conversationId = m.conversationId
                                        /\ j.id > m.id
                    /\ \A o \in Slots \ {r} : req[o].jojoMessage # req[r].jojoMessage
                    /\ Cardinality(LogsFor(m.id)) =
                         IF MentionsAny(req[r].body.content[1]) THEN 1 ELSE 0

\* two successful requests, one on each path, both answered
C3_Witness ==
  /\ AllAnsweredWithoutError
  /\ \E r, o \in Slots :
       /\ Succeeded(r) /\ Succeeded(o)
       /\ req[r].crisisDetection.isCrisis /\ ~req[o].crisisDetection.isCrisis
       /\ Len(chatMessage) = 4 /\ Len(crisisLog) = 1

\* C4: a completion call that fails (network error, non-2xx status, timeout)
\* never makes the request answer with an error: unless a store write failed,
\* the request ends with a success response and a persisted assistant message.
C4_ProviderFailureIsAbsorbed ==
  \A r \in Slots :
    /\ (Done(r) /\ Status(r) = 500) => req[r].storeFailed
    /\ (ProviderFailedFor(r) /\ Done(r) /\ ~req[r].storeFailed) =>
         /\ Status(r) = 200 /\ req[r].response[1].success
         /\ \E m \in MessageById(req[r].jojoMessage) :
              m.sender = "JOJO" /\ m.conversationId = req[r].conversation

\* a request whose completion call timed out and that answered 200
C4_Witness ==
  \E r \in Slots :
    /\ ProviderFailedFor(r) /\ req[r].outcome[1].kind = "timeout"
    /\ Succeeded(r) /\ MessageById(req[r].jojoMessage) # {}

FALLBACK_CONTENT == "Hi there! " \o SERVICE_FALLBACK_BODY

\* C5 (as the code has it): when the completion call fails, the assistant
\* message persisted for the request is stored with message type TEXT (the
\* fallback's SUGGESTION tag is mapped to TEXT before the write and survives
\* only in the response metadata), and its content is one fixed text, the same
\* for every request and every user.
C5_FallbackStoredAsText ==
  \A r \in Slots :
    ProviderFailedFor(r) =>
      /\ \A m \in MessageById(req[r].jojoMessage) :
           /\ m.sender = "JOJO"
           /\ m.messageType = "TEXT"
           /\ m.content = FALLBACK_CONTENT
      /\ Succeeded(r) => req[r].response[1].messageType = "SUGGESTION"

\* two users, with and without a profile, both answered by the fallback
C5_Witness ==
  \E r, o \in Slots :
    /\ req[r].userId # req[o].userId
    /\ ProviderFailedFor(r) /\ Succeeded(r)
    /\ ProviderFailedFor(o) /\ Succeeded(o)
    /\ MessageById(req[r].jojoMessage) # {} /\ MessageById(req[o].jojoMessage) # {}

\* C5 as stated: the persisted fallback message has message type SUGGESTION and
\* the fixed content.
C5_AsStated ==
  \A r \in Slots :
    ProviderFailedFor(r) =>
      \A m \in MessageById(req[r].jojoMessage) :
        m.messageType = "SUGGESTION" /\ m.content = FALLBACK_CONTENT

UserRows(table, userId) == {a \in table : a.userId = userId}

\* C6 (as the code has it): a request whose completion call failed upserts the
\* (user, day) analytics row exactly as a successful completion does: the row
\* is created with messagesCount 1 if absent, otherwise its messagesCount goes
\* up by one and its conversationTime by the response time in whole minutes,
\* rounded up; every other row stays as it is.
C6_FallbackIsCounted ==
  [][\A r \in Slots :
       (ProviderFailedFor(r) /\ req[r].pc = "upsertAnalytics"
          /\ req'[r].pc = "done" /\ ~req'[r].storeFailed) =>
         LET Mine(a) == a.userId = req[r].userId /\ a.date = req[r].today
             old == {a \in chatAnalytics : Mine(a)}
             new == {a \in chatAnalytics' : Mine(a)}
             minutes == (req[r].responseTime + 59999) \div 60000
         IN /\ Cardinality(new) = 1
            /\ {a \in chatAnalytics' : ~Mine(a)} = {a \in chatAnalytics : ~Mine(a)}
            /\ \A n \in new :
                 IF old = {}
                 THEN n.messagesCount = 1 /\ n.conversationTime = minutes
                 ELSE \A o \in old :
                        /\ n.messagesCount = o.messagesCount + 1
                        /\ n.conversationTime = o.conversationTime + minutes]_vars

\* every request sent was answered by the fallback, and the user's row of the
\* day, created by the first of them, counts two exchanges
C6_Witness ==
  /\ \A r \in Slots : ProviderFailedFor(r) /\ Succeeded(r)
  /\ \E a \in chatAnalytics : a.messagesCount = Cardinality(Slots)

\* C6 as stated: no step of a request whose completion call failed creates or
\* changes an analytics row of its user.
C6_AsStated ==
  [][\A r \in Slots :
       (ProviderFailedFor(r) /\ req'[r] # req[r]) =>
         UserRows(chatAnalytics', req[r].userId) = UserRows(chatAnalytics, req[r].userId)]_vars

Blank(s) == \A i \in 1..Len(s) : IsSpace(SubSeq(s, i, i))
InvalidContent(c) == c = None \/ Blank(c[1]) \/ Len(c[1]) > MaxContentLength

\* C7: a request whose content is missing, empty, whitespace-only or longer
\* than 2000 characters is answered 400 as it is received, with the store as it
\* was and nothing of the handler left to run; content of exactly 2000
\* characters goes on to the handler's first store call.
C7_InvalidContentRejected ==
  [][\A r \in Slots :
       /\ (req[r].pc = "idle" /\ req'[r].pc # "idle") =>
            LET c == req'[r].body.content
            IN /\ InvalidContent(c) =>
                    /\ req'[r].pc = "done"
                    /\ req'[r].response[1].status = 400
                    /\ req'[r].userMessage = 0 /\ req'[r].conversation = 0
                    /\ store' = store
               /\ (~InvalidContent(c) /\ Len(c[1]) = MaxContentLength) =>
                    req'[r].pc \in {"findConversation", "createConversation"}
       /\ req[r].pc = "done" => req'[r] = req[r]]_vars

\* a request of exactly 2000 characters was served, and a whitespace-only one
\* was then rejected with the store holding just the first exchange
C7_Witness ==
  \E r, o \in Slots :
    /\ Succeeded(r) /\ Len(req[r].body.content[1]) = MaxContentLength
    /\ Done(o) /\ Status(o) = 400 /\ req[o].body.content # None
    /\ Blank(req[o].body.content[1]) /\ Len(req[o].body.content[1]) > 0
    /\ Len(chatMessage) = 2

Owns(userId, id) ==
  \E i \in DOMAIN chatConversation :
    chatConversation[i].id = id /\ chatConversation[i].userId = userId

\* C8: a request naming a conversation its caller does not own, whether the
\* conversation does not exist or belongs to someone else, is answered with
\* the one not-found response and writes nothing.
C8_ForeignConversationNotFound ==
  [][\A r \in Slots :
       (req[r].pc = "findConversation" /\ req'[r] # req[r] /\ ~req'[r].storeFailed
          /\ ~Owns(req[r].userId, req[r].body.conversationId[1])) =>
         /\ req'[r].pc = "done"
         /\ req'[r].response =
              Some([status |-> 404, success |-> FALSE, message |-> "Conversation not found"])
         /\ req'[r].userMessage = 0
         /\ store' = store]_vars

\* a request answered 404 for a conversation that exists and is someone else's
C8_Witness ==
  \E r \in Slots :
    /\ Done(r) /\ Status(r) = 404
    /\ \E i \in DOMAIN chatConversation :
         /\ chatConversation[i].id = req[r].body.conversationId[1]
         /\ chatConversation[i].userId # req[r].userId

\* C9: a request whose text contains no keyword of any tier is not classified
\* as a crisis: it never takes a step of the crisis branch, no crisis log is
\* written for its message, and once classified it is on the completion path
\* with the provider called once.
C9_NoKeywordNoCrisis ==
  \A r \in Slots :
    (req[r].pc # "idle" /\ ~InvalidContent(req[r].body.content)
       /\ ~MentionsAny(req[r].body.content[1])) =>
      /\ ~req[r].crisisDetection.isCrisis
      /\ req[r].pc \notin CrisisPositions
      /\ req[r].userMessage # 0 => LogsFor(req[r].userMessage) = {}
      /\ req[r].pc \in CompletionPositions => req[r].providerCalls = 1
      /\ Succeeded(r) => req[r].providerCalls = 1 /\ "crisisDetected" \notin DOMAIN req[r].response[1]

\* a keyword-free request served on the completion path while a crisis log of
\* another request exists
C9_Witness ==
  \E r \in Slots :
    /\ Succeeded(r) /\ ~MentionsAny(req[r].body.content[1])
    /\ req[r].providerCalls = 1 /\ req[r].outcome # None
    /\ Len(crisisLog) = 1

\* C10: the safety reply and the hotline list for a region: a region containing
\* "nigeria" in any letter case gets the Nigeria set; a region naming no entry
\* of the region table, and an absent region, get the international set.
C10_RegionResolution ==
  call.fn = "render" =>
    LET lower == IF call.region = None THEN "" ELSE toLowerCase(call.region[1])
        Names(k) == includes(lower, k)
        unmatched == ~(\E k \in {"nigeria", "usa", "united states", "uk",
                                 "united kingdom", "canada"} : Names(k))
    IN /\ Names("nigeria") =>
            /\ includes(call.message, NIGERIA_BLOCK)
            /\ call.hotlines = NIGERIA_HOTLINES
       /\ (call.region = None \/ unmatched) =>
            /\ includes(call.message, INTERNATIONAL_BLOCK)
            /\ call.hotlines = INTERNATIONAL_HOTLINES

\* C11: every crisis log row has followUpNeeded set exactly when its risk
\* level is HIGH, and adminNotified set exactly when its risk level is HIGH.
C11_EscalationOnlyForHigh ==
  \A i \in DOMAIN crisisLog :
    /\ crisisLog[i].followUpNeeded = (crisisLog[i].riskLevel = "HIGH")
    /\ crisisLog[i].adminNotified = (crisisLog[i].riskLevel = "HIGH")
    /\ crisisLog[i].riskLevel \in {"HIGH", "MEDIUM", "LOW"}

\* a HIGH row with both flags set next to a LOW row with both flags clear
C11_Witness ==
  \E i, j \in DOMAIN crisisLog :
    /\ crisisLog[i].riskLevel = "HIGH"
    /\ crisisLog[i].followUpNeeded /\ crisisLog[i].adminNotified
    /\ crisisLog[j].riskLevel = "LOW"
    /\ ~crisisLog[j].followUpNeeded /\ ~crisisLog[j].adminNotified

\* The tier of a text, from the keyword lists alone.
TierOf(text) ==
  IF MentionsOf[text].high THEN "HIGH"
  ELSE IF MentionsOf[text].medium THEN "MEDIUM"
  ELSE IF MentionsOf[text].low THEN "LOW" ELSE "NONE"

\* C12: on the crisis path the persisted assistant message has type
\* CRISIS_RESPONSE, its content is the template rendered for the detected tier
\* and the region of the caller's profile, the crisis log of the user message
\* stores the same text as responseGiven, no completion output occurs in it,
\* and the response reports crisisDetected with the detected risk level.
C12_CrisisReplyIsTheTemplate ==
  \A r \in Slots :
    req[r].crisisDetection.isCrisis =>
      LET tier == TierOf(req[r].body.content[1])
          template == generateCrisisResponse(
                        ProfileRegion(wellnessProfile[req[r].userId]), tier)
      IN /\ \A m \in MessageById(req[r].jojoMessage) :
              /\ m.sender = "JOJO"
              /\ m.messageType = "CRISIS_RESPONSE"
              /\ m.content = template
              /\ \A c \in AiOutputs \cup {FALLBACK_CONTENT} : ~includes(m.content, c)
              /\ \E i \in LogsFor(req[r].userMessage) :
                   crisisLog[i].responseGiven = m.content
         /\ Succeeded(r) =>
              /\ MessageById(req[r].jojoMessage) # {}
              /\ req[r].response[1].crisisDetected
              /\ req[r].response[1].riskLevel = tier
              /\ req[r].response[1].responseType = "crisis"

\* a MEDIUM request of a user without a profile, answered with the MEDIUM
\* template around the international block
C12_Witness ==
  \E r \in Slots :
    /\ Succeeded(r) /\ req[r].crisisDetection.isCrisis
    /\ req[r].response[1].riskLevel = "MEDIUM"
    /\ wellnessProfile[req[r].userId] = None
    /\ \E m \in MessageById(req[r].jojoMessage) : includes(m.content, INTERNATIONAL_BLOCK)

OkOutcomeFor(r) == req[r].outcome # None /\ ~ProviderFailed(req[r].outcome[1])

\* C13 (as the code has it): on a successful completion the response reports
\* the type the response-type classifier gave the AI output, but the stored
\* assistant message carries that type mapped through the route's table:
\* RECIPE for NUTRITION and TEXT for every other type; an output matching only
\* the exercise rule, for an input that is no greeting, is reported as
\* EXERCISE and stored as TEXT.
C13_StoredTypeIsMapped ==
  \A r \in Slots :
    (OkOutcomeFor(r) /\ Succeeded(r)) =>
      LET reported == req[r].response[1].messageType
      IN /\ reported \in {"EXERCISE", "NUTRITION", "MENTAL_HEALTH", "SLEEP",
                          "GREETING", "SUGGESTION"}
         /\ \A m \in MessageById(req[r].jojoMessage) :
              /\ m.content = req[r].outcome[1].content
              /\ m.messageType = IF reported = "NUTRITION" THEN "RECIPE" ELSE "TEXT"
         /\ (/\ req[r].outcome[1].content = "Try this beginner workout plan."
             /\ req[r].body.content[1] = "What's a good beginner workout?") =>
              reported = "EXERCISE"

\* the workout question answered with an exercise-only output: reported as
\* EXERCISE, stored as TEXT
C13_Witness ==
  \E r \in Slots :
    /\ OkOutcomeFor(r) /\ Succeeded(r)
    /\ req[r].body.content[1] = "What's a good beginner workout?"
    /\ req[r].response[1].messageType = "EXERCISE"
    /\ \E m \in MessageById(req[r].jojoMessage) : m.messageType = "TEXT"

\* C13 as stated: the stored assistant message type is the classifier's type.
C13_AsStated ==
  \A r \in Slots :
    (OkOutcomeFor(r) /\ Succeeded(r)) =>
      \A m \in MessageById(req[r].jojoMessage) :
        m.messageType = req[r].response[1].messageType

\* C14: a request that completes with a successful completion reply changes
\* chat_analytics in one step only, its upsert: there the row of the caller
\* and the day the handler read gains exactly 1 in messagesCount, or is
\* created with messagesCount 1 if the caller had none for that day, and no
\* row of another user or another day changes.
C14_SuccessCountsOnce ==
  [][\A r \in Slots :
       (OkOutcomeFor(r) /\ req'[r] # req[r]) =>
         IF req[r].pc = "upsertAnalytics" /\ ~req'[r].storeFailed
         THEN LET Mine(a) == a.userId = req[r].userId /\ a.date = req[r].today
                  old == {a \in chatAnalytics : Mine(a)}
                  new == {a \in chatAnalytics' : Mine(a)}
              IN /\ req[r].today <= now \div TicksPerDay
                 /\ req'[r].pc = "done" /\ req'[r].response[1].status = 200
                 /\ Cardinality(old) <= 1 /\ Cardinality(new) = 1
                 /\ \A n \in new :
                      n.messagesCount = IF old = {} THEN 1
                                        ELSE (CHOOSE o \in old : TRUE).messagesCount + 1
                 /\ {a \in chatAnalytics' : ~Mine(a)} = {a \in chatAnalytics : ~Mine(a)}
         ELSE chatAnalytics' = chatAnalytics]_vars

\* one user served by the provider on two days: a row of 1 for each day
C14_Witness ==
  /\ \A r \in Slots : OkOutcomeFor(r) /\ Succeeded(r)
  /\ \E a, b \in chatAnalytics :
       /\ a.userId = b.userId /\ a.date # b.date
       /\ a.messagesCount = 1 /\ b.messagesCount = 1

\* C15: no step of a request that takes the crisis path creates or changes a
\* row of chat_analytics.
C15_CrisisPathLeavesAnalytics ==
  [][\A r \in Slots :
       (req'[r] # req[r] /\ (req[r].crisisDetection.isCrisis
                              \/ req'[r].crisisDetection.isCrisis)) =>
         chatAnalytics' = chatAnalytics]_vars

\* a crisis request answered after a completion exchange of the same user:
\* the user's row still counts that one exchange
C15_Witness ==
  \E r, o \in Slots :
    /\ Succeeded(r) /\ req[r].crisisDetection.isCrisis
    /\ Succeeded(o) /\ ~req[o].crisisDetection.isCrisis
    /\ req[o].userId = req[r].userId
    /\ req[o].jojoMessage < req[r].userMessage
    /\ \E a \in chatAnalytics : a.userId = req[r].userId /\ a.messagesCount = 1
    /\ Cardinality(chatAnalytics) = 1

\* C16: a request that is past its user-message write (reading the profile or
\* the history, classified, calling the provider, writing a crisis log or an
\* assistant message) has its USER message in the store, written ahead of any
\* crisis log or assistant message of the request, and the message stays there
\* when a later step of the request fails.
C16_UserMessageFirst ==
  \A r \in Slots :
    /\ (\/ req[r].pc \in {"findProfile", "findHistory"} \cup CrisisPositions
                          \cup CompletionPositions
        \/ req[r].crisisDetection.isCrisis
        \/ req[r].providerCalls > 0
        \/ req[r].outcome # None
        \/ req[r].jojoMessage # 0) => req[r].userMessage # 0
    /\ req[r].userMessage # 0 =>
         /\ \E m \in MessageById(req[r].userMessage) :
              /\ m.sender = "USER" /\ m.userId = req[r].userId
              /\ m.conversationId = req[r].conversation
              /\ m.content = trim(req[r].body.content[1])
         /\ req[r].jojoMessage # 0 => req[r].userMessage < req[r].jojoMessage
    /\ \A i \in DOMAIN crisisLog : MessageById(crisisLog[i].messageId) # {}

\* a request that failed at a store call after the provider had answered: its
\* user message is in the store and no assistant message is
C16_Witness ==
  \E r \in Slots :
    /\ Done(r) /\ req[r].storeFailed
    /\ req[r].outcome # None /\ req[r].jojoMessage = 0
    /\ MessageById(req[r].userMessage) # {}

\* C17: no request ends, with whatever response, leaving its USER message in
\* the store without an assistant message persisted for it.
C17_NoOrphanUserMessage ==
  \A r \in Slots :
    (Done(r) /\ MessageById(req[r].userMessage) # {}) =>
      \E m \in MessageById(req[r].jojoMessage) :
        m.sender = "JOJO" /\ m.conversationId = req[r].conversation

\* C18: in every state of the store, lastMessageAt of each conversation is at
\* or after createdAt of every message of that conversation.
C18_LastMessageAtCoversMessages ==
  \A i \in DOMAIN chatConversation :
    \A m \in RowsOf(chatMessage) :
      m.conversationId = chatConversation[i].id =>
        chatConversation[i].lastMessageAt >= m.createdAt

\* C19: a completion call that runs into the 30000 ms timeout is handled as
\* any other failed call is: the persisted reply and the response carry the
\* same content, types and confidence; and every request that has been
\* received reaches its response.
C19_TimeoutIsAFailureAndRequestsEnd ==
  /\ [](\A r, o \in Slots :
          (/\ ProviderFailedFor(r) /\ req[r].outcome[1].kind = "timeout"
           /\ req[r].outcome[1].latency = ProviderTimeoutMs
           /\ ProviderFailedFor(o) /\ req[o].outcome[1].kind # "timeout") =>
            /\ \A m \in MessageById(req[r].jojoMessage), n \in MessageById(req[o].jojoMessage) :
                 m.content = n.content /\ m.messageType = n.messageType /\ m.sender = n.sender
            /\ (Succeeded(r) /\ Succeeded(o)) =>
                 /\ req[r].response[1].messageType = req[o].response[1].messageType
                 /\ req[r].response[1].confidence = req[o].response[1].confidence
                 /\ req[r].response[1].aiProvider = req[o].response[1].aiProvider
                 /\ \E a \in chatAnalytics : a.userId = req[r].userId
                 /\ \E a \in chatAnalytics : a.userId = req[o].userId)
  /\ \A r \in Slots : (req[r].pc \notin {"idle", "done"}) ~> (req[r].pc = "done")

\* one request whose call timed out and one whose call failed otherwise, both
\* answered
C19_Witness ==
  \E r, o \in Slots :
    /\ ProviderFailedFor(r) /\ req[r].outcome[1].kind = "timeout" /\ Succeeded(r)
    /\ ProviderFailedFor(o) /\ req[o].outcome[1].kind = "network" /\ Succeeded(o)

\* C20 (as the code has it): the history sent to the completion provider has
\* at most 5 entries, they are the 5 most recently created messages of the
\* conversation with either sender, and each entry's content is the message's
\* own content when that is at most 1000 characters long and otherwise its
\* first 1000 characters followed by "...", 1003 characters in all.
C20_HistoryWindowAndCut ==
  call.fn = "sendHistory" =>
    /\ Len(call.sent) <= 5
    /\ Len(call.sent) = IF Cardinality(call.stored) < 5 THEN Cardinality(call.stored) ELSE 5
    /\ Len(call.taken) = Len(call.sent)
    /\ \A i \in DOMAIN call.taken :
         /\ Cardinality({m \in call.stored : m.createdAt > call.taken[i].createdAt}) < 5
         /\ call.sent[i].role = IF call.taken[i].sender = "USER" THEN "user" ELSE "assistant"
         /\ LET full == call.taken[i].content
                cut == call.sent[i].content
            IN IF Len(full) <= 1000 THEN cut = full
               ELSE /\ Len(cut) = 1003
                    /\ SubSeq(cut, 1, 1000) = SubSeq(full, 1, 1000)
                    /\ SubSeq(cut, 1001, 1003) = "..."

\* seven stored messages: five are sent, one of them cut to 1003 characters
\* and one of exactly 1000 characters sent whole
C20_Witness ==
  /\ call.fn = "sendHistory"
  /\ Cardinality(call.stored) = 7 /\ Len(call.sent) = 5
  /\ \E i, j \in DOMAIN call.sent :
       /\ Len(call.sent[i].content) = 1003 /\ Len(call.taken[i].content) = 1500
       /\ Len(call.sent[j].content) = 1000
       /\ call.sent[i].role # call.sent[j].role

\* C20 as stated: at most 5 entries, the most recent ones, each of at most
\* 1000 characters.
C20_AsStated ==
  call.fn = "sendHistory" =>
    /\ Len(call.sent) <= 5
    /\ \A i \in DOMAIN call.taken :
         Cardinality({m \in call.stored : m.createdAt > call.taken[i].createdAt}) < 5
    /\ \A i \in DOMAIN call.sent : Len(call.sent[i].content) <= 1000

\* C21: the history entries of the provider prompt run oldest first: no entry
\* is followed by one created earlier.
C21_HistoryOldestFirst ==
  call.fn = "sendHistory" =>
    /\ Len(call.taken) = Len(call.sent)
    /\ \A i, j \in DOMAIN call.taken :
         i < j => call.taken[i].createdAt <= call.taken[j].createdAt

C23_DetectionIgnoresProfile ==
  call.fn = "detectCrisis" =>
    \A profile \in ClassifierProfiles :
      LET other == detectCrisis(call.message, profile)
      IN /\ other.isCrisis = call.result.isCrisis
         /\ other.isCrisis =>
              /\ other.riskLevel = call.result.riskLevel
              /\ other.keywords = call.result.keywords
              /\ ProfileRegion(profile) = ProfileRegion(call.profile)
                   => other = call.result

\* a crisis detected for a user whose profile has crisis monitoring switched off
C23_Witness ==
  /\ call.fn = "detectCrisis"
  /\ call.profile # None
  /\ ~call.profile[1].crisisMonitoring
  /\ call.result.isCrisis
  /\ call.result.keywords # <<>>

TierKeywords(riskLevel) ==
  IF riskLevel = "HIGH" THEN HIGH_RISK
  ELSE IF riskLevel = "MEDIUM" THEN MEDIUM_RISK ELSE LOW_RISK

\* C24: the keywords returned with a crisis are exactly the keywords of the
\* winning tier that occur in the lower-cased text, every one of them, in the
\* order of the tier's list, and none of another tier.
C24_KeywordsAreTheWinningTierMatches ==
  (call.fn = "detectCrisis" /\ call.result.isCrisis) =>
    LET list == TierKeywords(call.result.riskLevel)
        lower == toLowerCase(call.message)
        keywords == call.result.keywords
        At(k) == CHOOSE i \in DOMAIN list : list[i] = k
    IN /\ \A j \in DOMAIN keywords : \E i \in DOMAIN list : list[i] = keywords[j]
       /\ \A i \in DOMAIN list :
            includes(lower, list[i]) <=> (\E j \in DOMAIN keywords : keywords[j] = list[i])
       /\ \A a, b \in DOMAIN keywords : a < b => At(keywords[a]) < At(keywords[b])

\* two keywords of the winning tier, returned in list order although the text
\* has them the other way round
C24_Witness ==
  /\ call.fn = "detectCrisis"
  /\ call.message = "suicidalWant To Die"
  /\ call.result.isCrisis
  /\ call.result.keywords = <<"want to die", "suicidal">>

\* The classification rules as a table, in the order they are tried.
ContentRules ==
  <<[type |-> "EXERCISE", topic |-> "fitness",
     words |-> {"workout", "exercise", "training", "fitness"}],
    [type |-> "NUTRITION", topic |-> "nutrition",
     words |-> {"nutrition", "meal", "diet", "food", "recipe", "calories"}],
    [type |-> "MENTAL_HEALTH", topic |-> "mental_health",
     words |-> {"stress", "anxiety", "mental", "meditation", "mindfulness"}],
    [type |-> "SLEEP", topic |-> "sleep", words |-> {"sleep", "rest", "recovery"}]>>
GreetingRule ==
  [type |-> "GREETING", topic |-> "introduction", words |-> {"hello", "hi", "hey"}]

RuleMatches(rule, text) == \E w \in rule.words : includes(toLowerCase(text), w)

\* C25: the rules are tried in the order exercise, nutrition, mental health,
\* sleep (over the completion) and greeting (over the user input); the type is
\* that of the last rule that matched, SUGGESTION when none did, GREETING
\* whenever the input holds hi, hello or hey; topics has one entry per matching
\* rule, in that order.
C25_LastMatchingRuleWins ==
  call.fn = "analyzeResponse" =>
    LET OnContent(rule) == RuleMatches(rule, call.response)
        matched == SelectSeq(ContentRules, OnContent)
                     \o (IF RuleMatches(GreetingRule, call.userInput)
                         THEN <<GreetingRule>> ELSE <<>>)
    IN /\ call.result.type = IF matched = <<>> THEN "SUGGESTION"
                             ELSE matched[Len(matched)].type
       /\ call.result.topics = [i \in DOMAIN matched |-> matched[i].topic]
       /\ RuleMatches(GreetingRule, call.userInput) => call.result.type = "GREETING"

\* a completion matching all four content rules, on an input without a greeting
C25_Witness ==
  /\ call.fn = "analyzeResponse"
  /\ call.response = "Meditation, food, fitness, rest"
  /\ call.userInput = "plan"
  /\ call.result.type = "SLEEP"
  /\ call.result.topics = <<"fitness", "nutrition", "mental_health", "sleep">>

StartsConversation(r) ==
  req[r].pc # "idle" /\ req[r].body.conversationId = None /\ req[r].conversation # 0

\* C26: requests sent without a conversationId each get a conversation of
\* their own: no two of them share one, also when they run concurrently, and
\* each one's user message is stored in the conversation it created.
C26_OwnConversationPerRequest ==
  \A r \in Slots :
    StartsConversation(r) =>
      /\ \A o \in Slots \ {r} :
           StartsConversation(o) => req[o].conversation # req[r].conversation
      /\ \E c \in RowsOf(chatConversation) :
           c.id = req[r].conversation /\ c.userId = req[r].userId
      /\ \A m \in MessageById(req[r].userMessage) :
           m.conversationId = req[r].conversation

\* two requests of one user in flight at once, two new conversations, one user
\* message in each
C26_Witness ==
  \E r, o \in Slots :
    /\ r # o
    /\ InFlight(r) /\ InFlight(o)
    /\ req[r].userId = req[o].userId
    /\ StartsConversation(r) /\ StartsConversation(o)
    /\ req[r].conversation # req[o].conversation
    /\ \E m \in MessageById(req[r].userMessage), n \in MessageById(req[o].userMessage) :
         /\ m.conversationId = req[r].conversation
         /\ n.conversationId = req[o].conversation
    /\ Len(chatConversation) = 2

\* the region entry a rendered hotline block, or a hotline list, belongs to
EntryOfBlock(message) ==
  IF includes(message, NIGERIA_BLOCK) THEN "nigeria"
  ELSE IF includes(message, USA_BLOCK) THEN "usa"
  ELSE IF includes(message, UK_BLOCK) THEN "uk"
  ELSE "international"
EntryOfList(hotlines) ==
  IF hotlines = NIGERIA_HOTLINES THEN "nigeria"
  ELSE IF hotlines = USA_HOTLINES THEN "usa"
  ELSE IF hotlines = UK_HOTLINES THEN "uk"
  ELSE IF hotlines = CANADA_HOTLINES THEN "canada"
  ELSE "international"

\* C27: for every region string the hotline block interpolated into the safety
\* message and the hotline list returned beside it belong to the same region
\* entry.
C27_BlockAndListAgree ==
  call.fn = "render" => EntryOfBlock(call.message) = EntryOfList(call.hotlines)

\* C28: once a request has ended, with success or with an error, every crisis
\* log it wrote is matched by a CRISIS_RESPONSE message of the same
\* conversation whose content is the log's responseGiven.
C28_LogHasItsCrisisResponse ==
  \A r \in Slots :
    Done(r) =>
      \A i \in LogsFor(req[r].userMessage) :
        req[r].userMessage # 0 =>
          \E m \in RowsOf(chatMessage) :
            /\ m.conversationId = req[r].conversation
            /\ m.sender = "JOJO"
            /\ m.messageType = "CRISIS_RESPONSE"
            /\ m.content = crisisLog[i].responseGiven

RECURSIVE SumOfCounts(_)
SumOfCounts(rows) ==
  IF rows = {} THEN 0
  ELSE LET a == CHOOSE a \in rows : TRUE
       IN a.messagesCount + SumOfCounts(rows \ {a})

\* the requests of a user that took the completion path and stored a reply
Replied(u) ==
  {r \in Slots : /\ req[r].userId = u
                 /\ ~req[r].crisisDetection.isCrisis
                 /\ req[r].jojoMessage # 0}

OwnTurn(r) ==
  LET content == trim(req[r].body.content[1])
  IN [role |-> "user",
      content |-> IF Len(content) > HistoryContentMax
                  THEN SubSeq(content, 1, HistoryContentMax) \o "..." ELSE content]

\* C30: the prompt holds the current user message once, as its final user
\* turn: the history placed before it holds that text no more often than
\* earlier messages of the conversation do, so never the message just stored.
C30_CurrentMessageOnce ==
  \A r \in Slots :
    req[r].sent # None =>
      LET history == req[r].sent[1].history
          earlier == {m \in RowsOf(chatMessage) :
                        /\ m.conversationId = req[r].conversation
                        /\ m.id # req[r].userMessage
                        /\ m.sender = "USER"
                        /\ m.content = trim(req[r].body.content[1])}
      IN /\ req[r].sent[1].userInput = req[r].body.content[1]
         /\ Cardinality({i \in DOMAIN history : history[i] = OwnTurn(r)})
              <= Cardinality(earlier)

====
